---- MODULE Spec2Model ----
(***************************************************************************)
(* connman-resolvconf: a daemon that mirrors the DNS data of ConnMan's     *)
(* active services into resolvconf(8).                                     *)
(*                                                                         *)
(* The model follows src/main.rs (ResolvconfState, run), src/connman.rs    *)
(* (Service, ServiceUpdate, Services) and src/resolvconf.rs (Resolvconf,   *)
(* check_permissions).  ConnMan's directory, the D-Bus signal stream, the  *)
(* helper binary's file metadata and the helper's exit status are the      *)
(* environment: every value they can hand to the program is drawn with \E. *)
(***************************************************************************)
EXTENDS Integers, Sequences, FiniteSets, TLC

VARIABLES
    pc,               \* position of run(): start, sync, check, wait, term, exit0, exit1, panic
    sigterm,          \* the AtomicBool set by the SIGTERM handler
    cleanup_on_term,  \* AppArgs.cleanup_on_term
    services,         \* ResolvconfState.services: HashMap<String, Service>
    conf,             \* what resolvconf(8) holds: interface -> content
    todo,             \* services of get_active() not yet inserted by the initial sync
    n,                \* number of bus messages dispatched so far
    ev,               \* the step run() took last (observation)
    last,             \* the last call of insert, update or remove_all (observation)
    failed,           \* some call of the helper has failed so far (observation)
    bus,              \* signals the connection has received and not yet dispatched
    running,          \* number of helper processes spawned and not yet waited for
    applied           \* the signals handed to the engine so far, in that order (observation)

\* the variables that only the fine-grained model of the dispatch uses
serial == <<bus, running, applied>>

vars == <<pc, sigterm, cleanup_on_term, services, conf, todo, n, ev, last, failed, serial>>

---------------------------------------------------------------------------
(* Bounds of the model.                                                    *)

\* number of service ids ConnMan knows
NumIds == 2
\* number of services GetServices lists when the daemon starts
MaxListed == 1
\* number of rounds of the event loop
MaxEvents == 2
IdNames == <<"eth", "wifi", "cell", "vpn">>
Ids == {IdNames[i] : i \in 1..NumIds}

\* Option<String>::None of Service.interface
None == "<none>"
\* Ethernet.Interface of each service, where ConnMan reports one
Ifaces == [i \in {IdNames[1]} |-> "eth0"]
interface_of(id) == IF id \in DOMAIN Ifaces THEN Ifaces[id] ELSE None
Interfaces == {interface_of(id) : id \in Ids}

States == {"idle", "failure", "association", "configuration", "ready", "disconnect", "online"}
\* a directory entry without the property State
Missing == "<missing>"
\* the values of State the directory is asked with
DirStates == {"ready", "online", "idle", Missing}

NsLists == {<<>>, <<"10.0.0.1">>}
DomLists == {<<>>, <<"corp.example">>}

Service == [id : Ids, state : States, interface : Interfaces,
            nameservers : NsLists, domains : DomLists]

\* what GetServices can return for one path
RawService == {r \in [id : Ids, state : DirStates, interface : Interfaces,
                      nameservers : NsLists, domains : DomLists] :
                  r.interface = interface_of(r.id)}

\* enum ServiceUpdate
ServiceUpdate == [tag : {"State"}, value : States]
            \cup [tag : {"Domains"}, value : DomLists]
            \cup [tag : {"Nameservers"}, value : NsLists]
            \cup [tag : {"Other"}]

\* uid of the daemon (Uid::current())
CurrentUid == 1000
\* 0o020 and 0o002
GroupWrite == 16
OtherWrite == 2

\* file metadata the helper binary can have: 0755 root, 0775 root, 0757 root,
\* 0755 daemon's user, 0755 somebody else
HelperStats == { [mode |-> 493, uid |-> 0], [mode |-> 509, uid |-> 0],
                 [mode |-> 495, uid |-> 0], [mode |-> 493, uid |-> CurrentUid],
                 [mode |-> 493, uid |-> CurrentUid + 1] }

\* what happens once the helper is executed
Runs == {"ok", "exit_nonzero"}

EmptyMap == [k \in {} |-> 0]

Put(m, k, v) == [x \in DOMAIN m \cup {k} |-> IF x = k THEN v ELSE m[x]]
Drop(m, k) == [x \in DOMAIN m \ {k} |-> m[x]]

---------------------------------------------------------------------------
(* src/connman.rs                                                          *)

interface_or_id(s) == IF s.interface = None THEN s.id ELSE s.interface

\* Service::update that reports a change whatever the old value was
Service_update_always_changed(s, change) ==
    IF change.tag = "State"
    THEN [service |-> [s EXCEPT !.state = change.value], changed |-> TRUE]
    ELSE IF change.tag = "Domains"
    THEN [service |-> [s EXCEPT !.domains = change.value], changed |-> TRUE]
    ELSE IF change.tag = "Nameservers"
    THEN [service |-> [s EXCEPT !.nameservers = change.value], changed |-> TRUE]
    ELSE [service |-> s, changed |-> FALSE]

\* Service::update: the merged service and whether anything changed
Service_update(s, change) ==
    IF change.tag = "State" /\ s.state # change.value
    THEN [service |-> [s EXCEPT !.state = change.value], changed |-> TRUE]
    ELSE IF change.tag = "Domains" /\ s.domains # change.value
    THEN [service |-> [s EXCEPT !.domains = change.value], changed |-> TRUE]
    ELSE IF change.tag = "Nameservers" /\ s.nameservers # change.value
    THEN [service |-> [s EXCEPT !.nameservers = change.value], changed |-> TRUE]
    ELSE [service |-> s, changed |-> FALSE]

\* TryFrom<(Path, PropMap)> for Service
try_from(raw) ==
    IF raw.state = Missing
    THEN [ok |-> FALSE]
    ELSE [ok |-> TRUE,
          service |-> [id |-> raw.id, state |-> raw.state, interface |-> raw.interface,
                       nameservers |-> raw.nameservers, domains |-> raw.domains]]

\* get_active without the filter on the state
RECURSIVE get_active_unfiltered(_)
get_active_unfiltered(listing) ==
    IF listing = <<>> THEN <<>>
    ELSE LET r == try_from(Head(listing))
             rest == get_active_unfiltered(Tail(listing))
         IN IF r.ok THEN <<r.service>> \o rest ELSE rest

\* the filter_map and filter of Services::get_active over a listing
RECURSIVE get_active(_)
get_active(listing) ==
    IF listing = <<>> THEN <<>>
    ELSE LET r == try_from(Head(listing))
             rest == get_active(Tail(listing))
         IN IF r.ok /\ (r.service.state = "online" \/ r.service.state = "ready")
            THEN <<r.service>> \o rest
            ELSE rest

---------------------------------------------------------------------------
(* src/main.rs: Service::resolvconf                                        *)

RECURSIVE join(_, _)
join(seq, sep) ==
    IF seq = <<>> THEN ""
    ELSE IF Len(seq) = 1 THEN seq[1]
    ELSE seq[1] \o sep \o join(Tail(seq), sep)

RECURSIVE nameserver_lines(_)
nameserver_lines(seq) ==
    IF seq = <<>> THEN ""
    ELSE "nameserver " \o seq[1] \o "\n" \o nameserver_lines(Tail(seq))

\* resolvconf with the nameserver lines put before the search line
resolvconf_search_last(s) ==
    "# Generated for " \o s.id \o "\n"
    \o nameserver_lines(s.nameservers)
    \o (IF s.domains # <<>> THEN "search " \o join(s.domains, " ") \o "\n" ELSE "")

resolvconf(s) ==
    "# Generated for " \o s.id \o "\n"
    \o (IF s.domains # <<>> THEN "search " \o join(s.domains, " ") \o "\n" ELSE "")
    \o nameserver_lines(s.nameservers)

---------------------------------------------------------------------------
(* src/resolvconf.rs                                                       *)

\* check_permissions that looks at the write bit of others only
check_permissions_others_only(h) ==
    IF (h.mode \div OtherWrite) % 2 # 0
    THEN "writeable"
    ELSE IF h.uid # 0 /\ h.uid # CurrentUid
    THEN "owner"
    ELSE "ok"

check_permissions(h) ==
    IF (h.mode \div GroupWrite) % 2 # 0 \/ (h.mode \div OtherWrite) % 2 # 0
    THEN "writeable"
    ELSE IF h.uid # 0 /\ h.uid # CurrentUid
    THEN "owner"
    ELSE "ok"

\* what the environment decides for one call of the helper: the file metadata
\* of the binary at that moment and how its execution ends
CallEnv == {e \in [stat : HelperStats, run : Runs] :
               check_permissions(e.stat) # "ok" => e.run = "ok"}

\* the record of one call of Resolvconf::add or Resolvconf::del
Call(op, id, iface, content, env) ==
    LET perm == check_permissions(env.stat)
    IN [op |-> op, id |-> id, iface |-> iface, content |-> content,
        stat |-> env.stat,
        spawned |-> perm = "ok",
        ok |-> perm = "ok" /\ env.run = "ok"]

\* Resolvconf::add: resolvconf -a <interface> with content on stdin
add(c, id, iface, content, env) ==
    LET call == Call("add", id, iface, content, env)
    IN [conf |-> IF call.ok THEN Put(c, iface, content) ELSE c,
        call |-> call, ok |-> call.ok]

\* Resolvconf::del: resolvconf -d <interface>
del(c, id, iface, env) ==
    LET call == Call("del", id, iface, "", env)
    IN [conf |-> IF call.ok THEN Drop(c, iface) ELSE c,
        call |-> call, ok |-> call.ok]

---------------------------------------------------------------------------
(* src/main.rs: ResolvconfState.  An engine state is [services, conf]; an  *)
(* operation returns the new state, Ok/Err and the helper calls it made.   *)

Result(svcs, c, ok, calls) == [services |-> svcs, conf |-> c, ok |-> ok, calls |-> calls]

\* insert without the early return for a service that is already stored
insert_always_writes(st, service, env) ==
    IF service.nameservers # <<>>
    THEN LET r == add(st.conf, service.id, interface_or_id(service),
                      resolvconf(service), env)
         IN IF r.ok
            THEN Result(Put(st.services, service.id, service), r.conf, TRUE, <<r.call>>)
            ELSE Result(st.services, r.conf, FALSE, <<r.call>>)
    ELSE Result(Put(st.services, service.id, service), st.conf, TRUE, <<>>)

\* insert that writes a service whether it has nameservers or not
insert_writes_empty(st, service, env) ==
    IF service.id \in DOMAIN st.services /\ st.services[service.id] = service
    THEN Result(st.services, st.conf, TRUE, <<>>)
    ELSE LET r == add(st.conf, service.id, interface_or_id(service),
                      resolvconf(service), env)
         IN IF r.ok
            THEN Result(Put(st.services, service.id, service), r.conf, TRUE, <<r.call>>)
            ELSE Result(st.services, r.conf, FALSE, <<r.call>>)

\* insert that stores the service also when the add call failed
insert_stores_on_failure(st, service, env) ==
    IF service.id \in DOMAIN st.services /\ st.services[service.id] = service
    THEN Result(st.services, st.conf, TRUE, <<>>)
    ELSE IF service.nameservers # <<>>
    THEN LET r == add(st.conf, service.id, interface_or_id(service),
                      resolvconf(service), env)
         IN Result(Put(st.services, service.id, service), r.conf, r.ok, <<r.call>>)
    ELSE Result(Put(st.services, service.id, service), st.conf, TRUE, <<>>)

\* ResolvconfState::insert
insert(st, service, env) ==
    IF service.id \in DOMAIN st.services /\ st.services[service.id] = service
    THEN Result(st.services, st.conf, TRUE, <<>>)
    ELSE IF service.nameservers # <<>>
    THEN LET r == add(st.conf, service.id, interface_or_id(service),
                      resolvconf(service), env)
         IN IF r.ok
            THEN Result(Put(st.services, service.id, service), r.conf, TRUE, <<r.call>>)
            ELSE Result(st.services, r.conf, FALSE, <<r.call>>)
    ELSE Result(Put(st.services, service.id, service), st.conf, TRUE, <<>>)

\* update that keeps the entry after a successful del
update_keeps_entry(st, id, change, env) ==
    IF id \notin DOMAIN st.services
    THEN Result(st.services, st.conf, TRUE, <<>>)
    ELSE LET u == Service_update(st.services[id], change)
             service == u.service
             merged == Put(st.services, id, service)
             iface == interface_or_id(service)
         IN IF ~u.changed
            THEN Result(st.services, st.conf, TRUE, <<>>)
            ELSE IF service.state \in {"ready", "online"}
            THEN LET r == add(st.conf, id, iface, resolvconf(service), env)
                 IN Result(merged, r.conf, r.ok, <<r.call>>)
            ELSE IF service.state = "disconnect"
            THEN LET r == del(st.conf, id, iface, env)
                 IN Result(merged, r.conf, r.ok, <<r.call>>)
            ELSE IF service.state = "configuration"
            THEN Result(merged, st.conf, TRUE, <<>>)
            ELSE Result(merged, st.conf, FALSE, <<>>)

\* update that ignores every state it has no arm for, like configuration
update_ignores_unexpected(st, id, change, env) ==
    IF id \notin DOMAIN st.services
    THEN Result(st.services, st.conf, TRUE, <<>>)
    ELSE LET u == Service_update(st.services[id], change)
             service == u.service
             merged == Put(st.services, id, service)
             iface == interface_or_id(service)
         IN IF ~u.changed
            THEN Result(st.services, st.conf, TRUE, <<>>)
            ELSE IF service.state \in {"ready", "online"}
            THEN LET r == add(st.conf, id, iface, resolvconf(service), env)
                 IN Result(merged, r.conf, r.ok, <<r.call>>)
            ELSE IF service.state = "disconnect"
            THEN LET r == del(st.conf, id, iface, env)
                 IN IF r.ok
                    THEN Result(Drop(merged, id), r.conf, TRUE, <<r.call>>)
                    ELSE Result(merged, r.conf, FALSE, <<r.call>>)
            ELSE Result(merged, st.conf, TRUE, <<>>)

\* update that keeps the merged entry only when nothing failed
update_merges_on_success(st, id, change, env) ==
    IF id \notin DOMAIN st.services
    THEN Result(st.services, st.conf, TRUE, <<>>)
    ELSE LET u == Service_update(st.services[id], change)
             service == u.service
             merged == Put(st.services, id, service)
             iface == interface_or_id(service)
         IN IF ~u.changed
            THEN Result(st.services, st.conf, TRUE, <<>>)
            ELSE IF service.state \in {"ready", "online"}
            THEN LET r == add(st.conf, id, iface, resolvconf(service), env)
                 IN Result(IF r.ok THEN merged ELSE st.services, r.conf, r.ok, <<r.call>>)
            ELSE IF service.state = "disconnect"
            THEN LET r == del(st.conf, id, iface, env)
                 IN IF r.ok
                    THEN Result(Drop(merged, id), r.conf, TRUE, <<r.call>>)
                    ELSE Result(st.services, r.conf, FALSE, <<r.call>>)
            ELSE IF service.state = "configuration"
            THEN Result(merged, st.conf, TRUE, <<>>)
            ELSE Result(st.services, st.conf, FALSE, <<>>)

\* ResolvconfState::update
update(st, id, change, env) ==
    IF id \notin DOMAIN st.services
    THEN Result(st.services, st.conf, TRUE, <<>>)
    ELSE LET u == Service_update(st.services[id], change)
             service == u.service
             merged == Put(st.services, id, service)
             iface == interface_or_id(service)
         IN IF ~u.changed
            THEN Result(st.services, st.conf, TRUE, <<>>)
            ELSE IF service.state \in {"ready", "online"}
            THEN LET r == add(st.conf, id, iface, resolvconf(service), env)
                 IN Result(merged, r.conf, r.ok, <<r.call>>)
            ELSE IF service.state = "disconnect"
            THEN LET r == del(st.conf, id, iface, env)
                 IN IF r.ok
                    THEN Result(Drop(merged, id), r.conf, TRUE, <<r.call>>)
                    ELSE Result(merged, r.conf, FALSE, <<r.call>>)
            ELSE IF service.state = "configuration"
            THEN Result(merged, st.conf, TRUE, <<>>)
            ELSE Result(merged, st.conf, FALSE, <<>>)

\* the loop of remove_all, giving up at the first del that fails
RECURSIVE drain_stops_at_error(_, _, _, _)
drain_stops_at_error(svcs, c, order, envs) ==
    IF order = <<>> THEN [conf |-> c, calls |-> <<>>]
    ELSE LET service == svcs[Head(order)]
             r == del(c, service.id, interface_or_id(service), envs[service.id])
             rest == IF r.ok THEN drain_stops_at_error(svcs, r.conf, Tail(order), envs)
                     ELSE [conf |-> r.conf, calls |-> <<>>]
         IN [conf |-> rest.conf, calls |-> <<r.call>> \o rest.calls]

\* the loop of ResolvconfState::remove_all over the drained entries, in the
\* order the HashMap yields them
RECURSIVE drain(_, _, _, _)
drain(svcs, c, order, envs) ==
    IF order = <<>> THEN [conf |-> c, calls |-> <<>>]
    ELSE LET service == svcs[Head(order)]
             r == del(c, service.id, interface_or_id(service), envs[service.id])
             rest == drain(svcs, r.conf, Tail(order), envs)
         IN [conf |-> rest.conf, calls |-> <<r.call>> \o rest.calls]

\* ResolvconfState::remove_all
remove_all(st, order, envs) ==
    LET d == drain(st.services, st.conf, order, envs)
    IN Result(EmptyMap, d.conf, TRUE, d.calls)

\* the orders in which a HashMap with the keys S can be iterated
Orders(S) == {o \in [1..Cardinality(S) -> S] : \A i, j \in 1..Cardinality(S) : i # j => o[i] # o[j]}

---------------------------------------------------------------------------
(* Observation: the last engine call (insert, update or remove_all), what  *)
(* was tracked under its id when it started, how it ended and the helper   *)
(* calls it made; and, when it repeats the engine call before it (same     *)
(* operation, same arguments), the same about that one.                    *)

NoEntry == [op |-> "none"]

\* what is tracked under id: <<service>>, or <<>>
Tracked(svcs, id) == IF id \in DOMAIN svcs THEN <<svcs[id]>> ELSE <<>>

Entry(op, id, arg, r) ==
    LET again == last.op = op /\ last.id = id /\ last.arg = arg
    IN [op |-> op, id |-> id, arg |-> arg, pre |-> Tracked(services, id),
        ok |-> r.ok, calls |-> r.calls,
        again |-> again,
        before |-> IF again THEN [pre |-> last.pre, ok |-> last.ok, calls |-> last.calls]
                   ELSE [pre |-> <<>>, ok |-> FALSE, calls |-> <<>>]]

\* some call of calls failed
AnyFailed(calls) == \E i \in 1..Len(calls) : ~calls[i].ok

World == [services |-> services, conf |-> conf]

\* the environment is asked only about the helper calls that are made
SomeEnv == CHOOSE e \in CallEnv : TRUE
EnvFor(r) == IF r.calls = <<>> THEN {SomeEnv} ELSE CallEnv

---------------------------------------------------------------------------
(* src/main.rs: run(), up to the event loop                                *)

Init ==
    /\ pc = "start"
    /\ sigterm = FALSE
    /\ cleanup_on_term \in BOOLEAN
    /\ services = EmptyMap
    /\ conf = EmptyMap
    /\ todo = <<>>
    /\ n = 0
    /\ ev = [kind |-> "none"]
    /\ last = NoEntry
    /\ failed = FALSE
    /\ bus = <<>>
    /\ running = 0
    /\ applied = <<>>

\* the listings GetServices can answer with: each path at most once
Listings ==
    UNION { UNION { {l \in [1..Cardinality(S) -> RawService] :
                        \A i \in 1..Cardinality(S) : l[i].id = o[i]} : o \in Orders(S) }
            : S \in {T \in SUBSET Ids : Cardinality(T) <= MaxListed} }

\* init_logger or LocalConnection::new_system fails: run returns Err, main exits 1
StartupError ==
    /\ pc = "start"
    /\ pc' = "exit1"
    /\ ev' = [kind |-> "startup_error"]
    /\ UNCHANGED <<sigterm, cleanup_on_term, services, conf, todo, n, last, failed, serial>>

\* services.get_active()? with GetServices failing
FetchActiveError ==
    /\ pc = "start"
    /\ pc' = "exit1"
    /\ ev' = [kind |-> "fetch_error"]
    /\ UNCHANGED <<sigterm, cleanup_on_term, services, conf, todo, n, last, failed, serial>>

\* services.get_active()? answering
FetchActive ==
    /\ pc = "start"
    /\ \E listing \in Listings : todo' = get_active(listing)
    /\ pc' = "sync"
    /\ ev' = [kind |-> "fetch"]
    /\ UNCHANGED <<sigterm, cleanup_on_term, services, conf, n, last, failed, serial>>

\* one round of try_for_each(|service| resolvconf.insert(service))?
SyncInsert ==
    /\ pc = "sync"
    /\ todo # <<>>
    /\ \E env \in EnvFor(insert(World, Head(todo), SomeEnv)) :
         LET r == insert(World, Head(todo), env)
         IN /\ services' = r.services
            /\ conf' = r.conf
            /\ last' = Entry("insert", Head(todo).id, Head(todo), r)
            /\ failed' = (failed \/ AnyFailed(r.calls))
            /\ pc' = IF r.ok THEN "sync" ELSE "exit1"
            /\ ev' = [kind |-> "sync_insert", ok |-> r.ok]
    /\ todo' = Tail(todo)
    /\ UNCHANGED <<sigterm, cleanup_on_term, n, serial>>

\* services.on_update(..)? and signal_hook::flag::register(..)? succeed
Subscribe ==
    /\ pc = "sync"
    /\ todo = <<>>
    /\ pc' = "check"
    /\ ev' = [kind |-> "subscribe"]
    /\ UNCHANGED <<sigterm, cleanup_on_term, services, conf, todo, n, last, failed, serial>>

\* one of them fails
SubscribeError ==
    /\ pc = "sync"
    /\ todo = <<>>
    /\ pc' = "exit1"
    /\ ev' = [kind |-> "subscribe_error"]
    /\ UNCHANGED <<sigterm, cleanup_on_term, services, conf, todo, n, last, failed, serial>>

---------------------------------------------------------------------------
(* The environment                                                         *)

\* SIGTERM arrives once the flag is registered
SetSigterm ==
    /\ pc \in {"check", "wait"}
    /\ ~sigterm
    /\ sigterm' = TRUE
    /\ UNCHANGED <<pc, cleanup_on_term, services, conf, todo, n, ev, last, failed, serial>>

---------------------------------------------------------------------------
(* src/main.rs: the event loop of run()                                    *)

\* sigterm is not set: connection.process(1000 ms) is entered
LoopEnter ==
    /\ pc = "check"
    /\ ~sigterm
    /\ n < MaxEvents
    /\ pc' = "wait"
    /\ n' = n + 1
    /\ ev' = [kind |-> "enter"]
    /\ UNCHANGED <<sigterm, cleanup_on_term, services, conf, todo, last, failed, serial>>

\* sigterm.load() reads true: the loop is left
CatchSigterm ==
    /\ pc = "check"
    /\ sigterm
    /\ pc' = "term"
    /\ ev' = [kind |-> "sigterm"]
    /\ last' = NoEntry
    /\ UNCHANGED <<sigterm, cleanup_on_term, services, conf, todo, n, failed, serial>>

\* remove_all when cleanup_on_term, then return Ok(()): main exits 0
Terminate ==
    /\ pc = "term"
    /\ IF cleanup_on_term
       THEN \E order \in Orders(DOMAIN services), envs \in [DOMAIN services -> CallEnv] :
              LET r == remove_all(World, order, envs)
              IN /\ services' = r.services
                 /\ conf' = r.conf
                 /\ last' = Entry("remove_all", "*", services, r)
                 /\ failed' = (failed \/ AnyFailed(r.calls))
       ELSE UNCHANGED <<services, conf, last, failed>>
    /\ ev' = [kind |-> "terminate"]
    /\ pc' = "exit0"
    /\ UNCHANGED <<sigterm, cleanup_on_term, todo, n, serial>>

\* process() returns after the timeout without a message
Timeout ==
    /\ pc = "wait"
    /\ pc' = "check"
    /\ ev' = [kind |-> "timeout"]
    /\ UNCHANGED <<sigterm, cleanup_on_term, services, conf, todo, n, last, failed, serial>>

\* connection.process(..)? fails: run returns Err, main exits 1
BusError ==
    /\ pc = "wait"
    /\ pc' = "exit1"
    /\ ev' = [kind |-> "bus_error"]
    /\ UNCHANGED <<sigterm, cleanup_on_term, services, conf, todo, n, last, failed, serial>>

---------------------------------------------------------------------------
(* src/connman.rs: Services::on_update, the closure given to add_match;    *)
(* src/main.rs: the callback run() gives to on_update                      *)

\* the updates the closure hands on
Relevant == {c \in ServiceUpdate : c.tag # "Other"}

\* the first arm of the callback's match taking State(online) only
is_activation_online_only(change) ==
    change.tag = "State" /\ change.value = "online"

\* the first arm of the callback's match
is_activation(change) ==
    change.tag = "State" /\ (change.value = "ready" \/ change.value = "online")

\* the first argument of a PropertyChanged signal: a property name, or
\* something that is not a string
NotAString == "<not a string>"
PropNames == {"State", "Domains", "Nameservers", "Strength", NotAString}
\* the type of its second argument: a variant holding a string, an array of
\* strings or a byte
VariantTypes == {"s", "as", "y"}

\* ServiceUpdate::read: the variant decoded, or a TypeMismatchError
read(name, type) ==
    IF name = NotAString THEN [ok |-> FALSE]
    ELSE IF name = "Domains"
    THEN IF type = "as" THEN [ok |-> TRUE, tag |-> "Domains"] ELSE [ok |-> FALSE]
    ELSE IF name = "Nameservers"
    THEN IF type = "as" THEN [ok |-> TRUE, tag |-> "Nameservers"] ELSE [ok |-> FALSE]
    ELSE IF name = "State"
    THEN IF type = "s" THEN [ok |-> TRUE, tag |-> "State"] ELSE [ok |-> FALSE]
    ELSE [ok |-> TRUE, tag |-> "Other"]

\* a PropertyChanged signal whose arguments ServiceUpdate::read rejects: the
\* closure is not called
Malformed ==
    /\ pc = "wait"
    /\ \E name \in PropNames, type \in VariantTypes : ~read(name, type).ok
    /\ pc' = "check"
    /\ ev' = [kind |-> "malformed"]
    /\ UNCHANGED <<sigterm, cleanup_on_term, services, conf, todo, n, last, failed, serial>>

\* the closure with the path looked at before the variant: a signal for
\* another property that has no path panics
OtherProperty_after_path ==
    /\ pc = "wait"
    /\ \E name \in PropNames, type \in VariantTypes :
         read(name, type) = [ok |-> TRUE, tag |-> "Other"]
    /\ ev' = [kind |-> "other"]
    /\ pc' \in {"check", "panic"}
    /\ UNCHANGED <<sigterm, cleanup_on_term, services, conf, todo, n, last, failed, serial>>

\* ServiceUpdate::Other: return true
OtherProperty ==
    /\ pc = "wait"
    /\ \E name \in PropNames, type \in VariantTypes :
         read(name, type) = [ok |-> TRUE, tag |-> "Other"]
    /\ ev' = [kind |-> "other"]
    /\ pc' = "check"
    /\ UNCHANGED <<sigterm, cleanup_on_term, services, conf, todo, n, last, failed, serial>>

\* msg.path() is None: panic!
NoPath ==
    /\ pc = "wait"
    /\ ev' = [kind |-> "no_path"]
    /\ pc' = "panic"
    /\ UNCHANGED <<sigterm, cleanup_on_term, services, conf, todo, n, last, failed, serial>>

\* the path does not start with SERVICE_PATH_PREFIX: warn!
BadPath ==
    /\ pc = "wait"
    /\ ev' = [kind |-> "bad_path"]
    /\ pc' = "check"
    /\ UNCHANGED <<sigterm, cleanup_on_term, services, conf, todo, n, last, failed, serial>>

\* Services::get over the answer of GetServices
get(id, reply) ==
    IF ~reply.ok THEN [ok |-> FALSE, err |-> "transport"]
    ELSE LET found == {i \in 1..Len(reply.listing) : reply.listing[i].id = id}
         IN IF found = {} THEN [ok |-> FALSE, err |-> "no_such_service"]
            ELSE LET r == try_from(reply.listing[CHOOSE i \in found : \A j \in found : i <= j])
                 IN IF r.ok THEN r ELSE [ok |-> FALSE, err |-> "malformed"]

\* the answers of GetServices a promotion is tried against
Replies(id) ==
    {[ok |-> FALSE]} \cup {[ok |-> TRUE, listing |-> <<>>]}
    \cup {[ok |-> TRUE, listing |-> <<raw>>] : raw \in {r \in RawService : r.id = id}}
    \cup {[ok |-> TRUE, listing |-> <<raw>>] :
             raw \in {r \in RawService : r.id # id /\ r.state = "online"
                                         /\ r.nameservers = <<>> /\ r.domains = <<>>}}

\* the callback handing the update to update when services.get(id) fails
Promote_update_on_error ==
    /\ pc = "wait"
    /\ \E id \in Ids, change \in {c \in Relevant : is_activation(c)} :
       \E reply \in Replies(id) :
         LET g == get(id, reply)
         IN IF g.ok
            THEN \E env \in EnvFor(insert(World, g.service, SomeEnv)) :
                   LET r == insert(World, g.service, env)
                   IN /\ services' = r.services
                      /\ conf' = r.conf
                      /\ last' = Entry("insert", id, g.service, r)
                      /\ failed' = (failed \/ AnyFailed(r.calls))
                      /\ ev' = [kind |-> "promote", id |-> id, change |-> change,
                                fetched |-> "ok", state |-> g.service.state,
                                ok |-> r.ok]
            ELSE \E env \in EnvFor(update(World, id, change, SomeEnv)) :
                   LET r == update(World, id, change, env)
                   IN /\ services' = r.services
                      /\ conf' = r.conf
                      /\ last' = Entry("update", id, change, r)
                      /\ failed' = (failed \/ AnyFailed(r.calls))
                      /\ ev' = [kind |-> "promote", id |-> id, change |-> change,
                                fetched |-> g.err, ok |-> FALSE]
    /\ pc' = "check"
    /\ UNCHANGED <<sigterm, cleanup_on_term, todo, n, serial>>

\* the callback giving the fetched service the state of the notification
Promote_with_notified_state ==
    /\ pc = "wait"
    /\ \E id \in Ids, change \in {c \in Relevant : is_activation(c)} :
       \E reply \in Replies(id) :
         LET g == get(id, reply)
         IN IF g.ok
            THEN LET service == [g.service EXCEPT !.state = change.value]
                 IN \E env \in EnvFor(insert(World, service, SomeEnv)) :
                      LET r == insert(World, service, env)
                      IN /\ services' = r.services
                         /\ conf' = r.conf
                         /\ last' = Entry("insert", id, service, r)
                         /\ failed' = (failed \/ AnyFailed(r.calls))
                         /\ ev' = [kind |-> "promote", id |-> id, change |-> change,
                                   fetched |-> "ok", state |-> g.service.state,
                                   ok |-> r.ok]
            ELSE /\ UNCHANGED <<services, conf, last, failed>>
                 /\ ev' = [kind |-> "promote", id |-> id, change |-> change,
                           fetched |-> g.err, ok |-> FALSE]
    /\ pc' = "check"
    /\ UNCHANGED <<sigterm, cleanup_on_term, todo, n, serial>>

\* State(ready | online): services.get(id), then insert
Promote ==
    /\ pc = "wait"
    /\ \E id \in Ids, change \in {c \in Relevant : is_activation(c)} :
       \E reply \in Replies(id) :
         LET g == get(id, reply)
         IN IF g.ok
            THEN \E env \in EnvFor(insert(World, g.service, SomeEnv)) :
                   LET r == insert(World, g.service, env)
                   IN /\ services' = r.services
                      /\ conf' = r.conf
                      /\ last' = Entry("insert", id, g.service, r)
                      /\ failed' = (failed \/ AnyFailed(r.calls))
                      /\ ev' = [kind |-> "promote", id |-> id, change |-> change,
                                fetched |-> "ok", state |-> g.service.state,
                                ok |-> r.ok]
            ELSE /\ UNCHANGED <<services, conf, last, failed>>
                 /\ ev' = [kind |-> "promote", id |-> id, change |-> change,
                           fetched |-> g.err, ok |-> FALSE]
    /\ pc' = "check"
    /\ UNCHANGED <<sigterm, cleanup_on_term, todo, n, serial>>

\* any other update: resolvconf.update(id, update)
Update ==
    /\ pc = "wait"
    /\ \E id \in Ids, change \in {c \in Relevant : ~is_activation(c)} :
         \E env \in EnvFor(update(World, id, change, SomeEnv)) :
           LET r == update(World, id, change, env)
           IN /\ services' = r.services
              /\ conf' = r.conf
              /\ last' = Entry("update", id, change, r)
              /\ failed' = (failed \/ AnyFailed(r.calls))
              /\ ev' = [kind |-> "update", id |-> id, change |-> change, ok |-> r.ok]
    /\ pc' = "check"
    /\ UNCHANGED <<sigterm, cleanup_on_term, todo, n, serial>>

---------------------------------------------------------------------------

Next ==
    \/ StartupError \/ FetchActiveError \/ FetchActive \/ SyncInsert
    \/ Subscribe \/ SubscribeError
    \/ SetSigterm
    \/ LoopEnter \/ CatchSigterm \/ Terminate \/ Timeout \/ BusError
    \/ Malformed \/ OtherProperty \/ NoPath \/ BadPath \/ Promote \/ Update

Spec == Init /\ [][Next]_vars

---------------------------------------------------------------------------
(* Properties.  They read the observation variables: last is the last     *)
(* engine call and stays put until the next one, and services and conf    *)
(* change in engine calls only, so what is tracked under last.id in a     *)
(* state is what that call left there.                                    *)

\* insert(s) has just been called a second time in a row with the same s
InsertedTwice == last.op = "insert" /\ last.again

\* C1 as stated: insert(s) called twice in a row with the same s, s not being
\* stored already, makes exactly one add call in total when s has nameservers
\* and none when it has not, and the second call makes no call, returns Ok and
\* leaves s tracked.
C1_OneWriteInTwoInserts ==
    (InsertedTwice /\ last.before.pre # <<last.arg>>) =>
        /\ Len(last.before.calls) + Len(last.calls)
               = (IF last.arg.nameservers # <<>> THEN 1 ELSE 0)
        /\ last.calls = <<>>
        /\ last.ok
        /\ Tracked(services, last.id) = <<last.arg>>

\* C1, amended: when the first insert(s) returns Ok the second one is a no-op
\* (no add call, Ok, s stays tracked as it was) and the two make one add call
\* in total if s has nameservers and was not stored already, none otherwise;
\* when the first one fails (its add call failed) s has not been stored, and
\* the second one makes the add call again.
C1_InsertIdempotentAfterOk ==
    InsertedTwice =>
        IF last.before.ok
        THEN /\ last.calls = <<>>
             /\ last.ok
             /\ last.pre = <<last.arg>>
             /\ Tracked(services, last.id) = <<last.arg>>
             /\ Len(last.before.calls)
                    = (IF last.arg.nameservers # <<>> /\ last.before.pre # <<last.arg>>
                       THEN 1 ELSE 0)
        ELSE /\ last.arg.nameservers # <<>>
             /\ Len(last.before.calls) = 1
             /\ ~last.before.calls[1].ok
             /\ last.pre = last.before.pre
             /\ last.pre # <<last.arg>>
             /\ Len(last.calls) = 1
             /\ last.calls[1].op = "add"
             /\ last.calls[1].content = last.before.calls[1].content

\* the second insert(s) in a row was a no-op after the first one wrote s
C1_Witness ==
    /\ InsertedTwice
    /\ last.before.ok
    /\ Len(last.before.calls) = 1
    /\ last.before.calls[1].op = "add"
    /\ last.calls = <<>>
    /\ services[last.id] = last.arg


\* the field of s that change is about
FieldOf(s, change) ==
    IF change.tag = "State" THEN s.state
    ELSE IF change.tag = "Domains" THEN s.domains
    ELSE s.nameservers

\* update(id, change) has just been called for a tracked id
UpdatedTracked == last.op = "update" /\ last.pre # <<>>

\* C2: update(id, change) for a tracked id whose field already has the value
\* of change makes no helper call, returns Ok and leaves the entry as it was,
\* in whatever state the entry is.
C2_EqualValueIsNoOp ==
    (UpdatedTracked /\ FieldOf(last.pre[1], last.arg) = last.arg.value) =>
        /\ last.calls = <<>>
        /\ last.ok
        /\ Tracked(services, last.id) = last.pre

\* the nameservers of an online service were announced again, unchanged
C2_Witness ==
    /\ UpdatedTracked
    /\ last.pre[1].state = "online"
    /\ last.arg.tag = "Nameservers"
    /\ last.arg.value # <<>>
    /\ last.arg.value = last.pre[1].nameservers
    /\ last.calls = <<>>
    /\ last.ok

\* the engine call last made an add call
Applied == last.op \in {"insert", "update"} /\ \E i \in 1..Len(last.calls) : last.calls[i].op = "add"

\* the service an add call of last was made for: the argument of insert, or
\* the merged entry update left in the map
AppliedService == IF last.op = "insert" THEN last.arg ELSE services[last.id]

Disconnected == last.op = "update" /\ last.arg = [tag |-> "State", value |-> "disconnect"]

\* C4 as stated: update(id, State(disconnect)) for a tracked service removes
\* its entry and makes exactly one del call, for the interface of the entry or
\* its id; a further disconnect for the same id makes no call, returns Ok and
\* changes nothing.
C4_DisconnectRemovesEntry ==
    /\ (Disconnected /\ last.pre # <<>> /\ last.pre[1].state # "disconnect") =>
           /\ Len(last.calls) = 1
           /\ last.calls[1].op = "del"
           /\ last.calls[1].iface = interface_or_id(last.pre[1])
           /\ last.id \notin DOMAIN services
    /\ (Disconnected /\ last.again) =>
           /\ last.calls = <<>>
           /\ last.ok
           /\ Tracked(services, last.id) = last.pre

\* C4, amended: update(id, State(disconnect)) for a tracked service that is
\* not in state disconnect makes exactly one del call, for the interface of
\* the entry or its id; the entry is removed when that call succeeds, and when
\* it fails the entry stays, in state disconnect, and the update returns the
\* error.  Either way a further disconnect for the same id makes no call,
\* returns Ok and changes nothing.
C4_DisconnectRemovesWhenDelSucceeds ==
    Disconnected =>
        /\ IF last.pre # <<>> /\ last.pre[1].state # "disconnect"
           THEN /\ Len(last.calls) = 1
                /\ last.calls[1].op = "del"
                /\ last.calls[1].iface = interface_or_id(last.pre[1])
                /\ last.ok = last.calls[1].ok
                /\ IF last.calls[1].ok
                   THEN last.id \notin DOMAIN services
                   ELSE Tracked(services, last.id)
                            = <<[last.pre[1] EXCEPT !.state = "disconnect"]>>
           ELSE /\ last.calls = <<>>
                /\ last.ok
                /\ Tracked(services, last.id) = last.pre
        /\ last.again => (last.pre = <<>> \/ last.pre[1].state = "disconnect")

\* a second disconnect in a row, after the first one removed the entry
C4_Witness ==
    /\ Disconnected
    /\ last.again
    /\ last.before.pre # <<>>
    /\ last.before.ok
    /\ Len(last.before.calls) = 1
    /\ last.before.calls[1].op = "del"
    /\ last.pre = <<>>
    /\ last.calls = <<>>
    /\ last.ok
    /\ last.id \notin DOMAIN services

\* C5: remove_all makes exactly one del call for every service tracked when it
\* starts, for the interface of the service or its id, whether earlier del
\* calls failed or not, returns and leaves nothing tracked.
C5_RemoveAllDrains ==
    last.op = "remove_all" =>
        /\ services = EmptyMap
        /\ last.ok
        /\ Len(last.calls) = Cardinality(DOMAIN last.arg)
        /\ \A id \in DOMAIN last.arg :
             \E i \in 1..Len(last.calls) :
               /\ last.calls[i].op = "del"
               /\ last.calls[i].id = id
               /\ last.calls[i].iface = interface_or_id(last.arg[id])

\* remove_all went on to the second service after the del of the first failed
C5_Witness ==
    /\ last.op = "remove_all"
    /\ Cardinality(DOMAIN last.arg) = 2
    /\ Len(last.calls) = 2
    /\ ~last.calls[1].ok
    /\ last.calls[2].ok
    /\ services = EmptyMap
    /\ pc = "exit0"

\* the helper binary can be written by its group or by others, or belongs to
\* somebody who is neither root nor the daemon's user
Unsafe(stat) ==
    \/ (stat.mode \div 8) % 8 \in {2, 3, 6, 7}
    \/ stat.mode % 8 \in {2, 3, 6, 7}
    \/ stat.uid \notin {0, CurrentUid}

\* C6: every add and del call looks at the helper binary as it is at that
\* moment; when the binary is unsafe the helper is not executed and the call
\* fails (and insert or update with it), when it is safe the helper is executed.
C6_HelperCheckedOnEveryCall ==
    last.op # "none" =>
        \A i \in 1..Len(last.calls) :
          IF Unsafe(last.calls[i].stat)
          THEN /\ ~last.calls[i].spawned
               /\ ~last.calls[i].ok
               /\ last.op \in {"insert", "update"} => ~last.ok
          ELSE last.calls[i].spawned

\* an update was refused because the binary had become group-writable, after
\* an earlier call had written an entry
C6_Witness ==
    /\ last.op = "update"
    /\ Len(last.calls) = 1
    /\ last.calls[1].stat.mode = 509
    /\ ~last.calls[1].spawned
    /\ ~last.ok
    /\ conf # EmptyMap


\* C7: as long as no helper call has failed, between two steps of the daemon
\* the configuration has an entry under an interface exactly when a tracked
\* service with nameservers has that interface (or id), and the entry is the
\* content generated from that service as it is tracked.
C7_NoStaleOrDuplicateEntries ==
    (~failed /\ pc \in {"sync", "check", "wait"}) =>
        /\ \A key \in DOMAIN conf :
             \E id \in DOMAIN services :
               /\ services[id].nameservers # <<>>
               /\ interface_or_id(services[id]) = key
               /\ conf[key] = resolvconf(services[id])
        /\ \A id \in DOMAIN services :
             services[id].nameservers # <<>> =>
               /\ interface_or_id(services[id]) \in DOMAIN conf
               /\ conf[interface_or_id(services[id])] = resolvconf(services[id])

\* the steps of run() that handle one PropertyChanged message
Notifications == {"malformed", "other", "no_path", "bad_path", "promote", "update"}

\* C8: whatever a single PropertyChanged message is (malformed, without a
\* path, with a path outside the service prefix, for a service that cannot be
\* fetched, leading to an unexpected state or to a failing helper call), the
\* daemon has handled it and is back at the head of its loop.
C8_NoNotificationEndsTheDaemon ==
    ev.kind \in Notifications => pc = "check"

\* the step run() took last called insert or update and the helper binary was
\* found unsafe in it
RefusedUnsafe ==
    /\ ev.kind \in {"sync_insert", "promote", "update"}
    /\ ev.kind = "promote" => ev.fetched = "ok"
    /\ \E i \in 1..Len(last.calls) : Unsafe(last.calls[i].stat)

\* C9: a call refused because the helper binary is unsafe costs that one call
\* only: the daemon goes on, in the event loop and in the initial sync alike,
\* where the services still to be inserted are inserted next.
C9_UnsafeHelperRefusesOneCallOnly ==
    RefusedUnsafe => pc \in {"sync", "check"}

\* run() is over
Exited == pc \in {"exit0", "exit1", "panic"}

\* C10: once SIGTERM has been caught the daemon does not exit before
\* remove_all has run, and left nothing tracked, when cleanup_on_term is set;
\* when it is not set the daemon exits without remove_all.
C10_CleanupBeforeExit ==
    (sigterm /\ Exited) =>
        IF cleanup_on_term
        THEN last.op = "remove_all" /\ services = EmptyMap
        ELSE last.op # "remove_all"


\* C11: a PropertyChanged signal for a property other than State, Domains and
\* Nameservers is decoded to Other, whatever the type of its value, and
\* handling it changes nothing: the services tracked stay as they are, no
\* engine call is made (hence no GetServices call and no helper call), nothing
\* fails and the daemon is back at the head of its loop.
C11_OtherPropertyIsIgnored ==
    [][(pc = "wait" /\ ev'.kind = "other") =>
          /\ \A name \in PropNames \ {"State", "Domains", "Nameservers", NotAString} :
               \A type \in VariantTypes : read(name, type) = [ok |-> TRUE, tag |-> "Other"]
          /\ pc' = "check"
          /\ services' = services
          /\ conf' = conf
          /\ last' = last
          /\ failed' = failed]_vars

\* a signal for another property was handled while a service was tracked
C11_Witness ==
    /\ ev.kind = "other"
    /\ pc = "check"
    /\ services # EmptyMap


---------------------------------------------------------------------------
(* Service::resolvconf on its own: a service is drawn and its content is   *)
(* generated, with up to MaxDomains domains and MaxNameservers nameservers. *)

MaxDomains == 2
MaxNameservers == 2
FormatIds == {"eth0", "wifi_1"}
FormatDomains == {"corp.example", "lan", "example.org"}
FormatNameservers == {"10.0.0.1", "10.0.0.2"}

\* the sequences over S of length at most k
SeqsUpTo(S, k) == UNION {[1..len -> S] : len \in 0..k}

FormatInit ==
    /\ Init
    /\ cleanup_on_term = FALSE

\* service.resolvconf() for some service
Generate ==
    /\ \E id \in FormatIds, state \in {"ready", "online"},
          domains \in SeqsUpTo(FormatDomains, MaxDomains),
          nameservers \in SeqsUpTo(FormatNameservers, MaxNameservers) :
         LET service == [id |-> id, state |-> state, interface |-> None,
                         nameservers |-> nameservers, domains |-> domains]
         IN ev' = [kind |-> "resolvconf", service |-> service,
                   content |-> resolvconf(service)]
    /\ UNCHANGED <<pc, sigterm, cleanup_on_term, services, conf, todo, n, last, failed, serial>>

FormatNext == Generate

FormatSpec == FormatInit /\ [][FormatNext]_vars

\* the lines, each ended by a newline
RECURSIVE Unlines(_)
Unlines(lines) ==
    IF lines = <<>> THEN "" ELSE Head(lines) \o "\n" \o Unlines(Tail(lines))

\* the words, with one space between two of them
RECURSIVE Spaced(_)
Spaced(words) ==
    IF Len(words) = 1 THEN words[1]
    ELSE Spaced(SubSeq(words, 1, Len(words) - 1)) \o " " \o words[Len(words)]

\* the lines of the content of s: the header, the search line if s has
\* domains, one nameserver line per nameserver
ExpectedLines(s) ==
    <<"# Generated for " \o s.id>>
    \o (IF s.domains = <<>> THEN <<>> ELSE <<"search " \o Spaced(s.domains)>>)
    \o [i \in 1..Len(s.nameservers) |-> "nameserver " \o s.nameservers[i]]

\* the service of the specification's example, and its content
ExampleService ==
    [id |-> "eth0", state |-> "online", interface |-> None,
     nameservers |-> <<"10.0.0.1", "10.0.0.2">>, domains |-> <<"corp.example">>]
ExampleContent ==
    "# Generated for eth0\nsearch corp.example\nnameserver 10.0.0.1\nnameserver 10.0.0.2\n"

\* C12: the content generated for a service is the header line naming its id,
\* then, only if it has domains, one search line with the domains separated
\* by single spaces, then one nameserver line per nameserver in their order,
\* every line ended by a newline and nothing else; for the example service it
\* is the four lines of the example.
C12_ContentFormat ==
    ev.kind = "resolvconf" =>
        /\ ev.content = Unlines(ExpectedLines(ev.service))
        /\ ev.service = ExampleService => ev.content = ExampleContent

\* the content of the example service has been generated
C12_Witness ==
    /\ ev.kind = "resolvconf"
    /\ ev.service = ExampleService
    /\ ev.content = ExampleContent


---------------------------------------------------------------------------
(* Properties of the event loop.                                           *)

\* run() has just handled a signal by promotion (get, then insert) or by update
Dispatched == pc = "wait" /\ ev'.kind \in {"promote", "update"}

\* the update announces the state ready or online
Activation(change) == change.tag = "State" /\ change.value \in {"ready", "online"}

\* C13 as stated: a signal is handled by GetServices and insert only when its
\* id is not tracked; State(ready) and State(online) for a tracked id go to
\* update, like every other update.
C13_PromotionOnlyWhenUntracked ==
    [][Dispatched =>
          /\ ev'.kind = "promote" => ev'.id \notin DOMAIN services
          /\ (Activation(ev'.change) /\ ev'.id \in DOMAIN services) => ev'.kind = "update"
          /\ ~Activation(ev'.change) => ev'.kind = "update"]_vars

\* C13, amended: State(ready) and State(online) are always handled by
\* GetServices and, when the service is fetched, insert of the fetched
\* service, whether the id is tracked or not, and never by update; every
\* other update of State, Domains or Nameservers is always handed to update.
C13_PromotionOnEveryActivation ==
    [][Dispatched =>
          /\ ev'.kind = "promote" <=> Activation(ev'.change)
          /\ (ev'.kind = "promote" /\ ev'.fetched = "ok") =>
                 /\ last'.op = "insert"
                 /\ last'.id = ev'.id
                 /\ last'.arg.id = ev'.id
                 /\ last'.pre = Tracked(services, ev'.id)
          /\ (ev'.kind = "promote" /\ ev'.fetched # "ok") =>
                 /\ last' = last
                 /\ services' = services
          /\ ev'.kind = "update" =>
                 /\ last'.op = "update"
                 /\ last'.id = ev'.id
                 /\ last'.arg = ev'.change
                 /\ last'.pre = Tracked(services, ev'.id)]_vars

\* a tracked service in state ready was announced online, fetched and inserted
C13_Witness ==
    /\ ev.kind = "promote"
    /\ ev.fetched = "ok"
    /\ ev.change.value = "online"
    /\ last.op = "insert"
    /\ last.pre # <<>>
    /\ last.pre[1].state = "ready"
    /\ last.arg.state = "online"
    /\ services[last.id] = last.arg


\* the states that are neither active nor disconnect
Inactive == {"configuration", "idle", "failure", "association"}

\* C14 as stated: between two steps of the daemon every tracked service is in
\* state ready or online; after State(configuration), State(idle),
\* State(failure) or State(association) for a tracked service no entry in that
\* state is left.
C14_OnlyActiveTracked ==
    pc \in {"sync", "check", "wait"} =>
        \A id \in DOMAIN services : services[id].state \in {"ready", "online"}

\* C14, amended: every service the initial sync tracks is in state ready or
\* online; later the tracked services need not be active: update with
\* State(configuration), State(idle), State(failure) or State(association)
\* for a tracked service in another state leaves its entry tracked, in that
\* state, without a helper call, and returns an error unless the state is
\* configuration.
C14_ActiveAtStartupOnly ==
    /\ ev.kind \in {"fetch", "sync_insert", "subscribe"} =>
           \A id \in DOMAIN services : services[id].state \in {"ready", "online"}
    /\ (UpdatedTracked /\ last.arg.tag = "State" /\ last.arg.value \in Inactive
           /\ last.pre[1].state # last.arg.value) =>
           /\ Tracked(services, last.id) = <<[last.pre[1] EXCEPT !.state = last.arg.value]>>
           /\ last.calls = <<>>
           /\ last.ok = (last.arg.value = "configuration")

\* a tracked online service was announced idle and is still tracked, as idle
C14_Witness ==
    /\ UpdatedTracked
    /\ last.arg = [tag |-> "State", value |-> "idle"]
    /\ last.pre[1].state = "online"
    /\ last.id \in DOMAIN services
    /\ services[last.id].state = "idle"
    /\ ~last.ok
    /\ pc = "check"


\* insert(s) has just been called with s not stored already
InsertedNew == last.op = "insert" /\ last.pre # <<last.arg>>

\* C15 as stated: insert(s) with s not stored already leaves s tracked under
\* its id, with or without nameservers, also when the add call fails.
C15_InsertAlwaysUpserts ==
    InsertedNew => Tracked(services, last.id) = <<last.arg>>

\* C15, amended: insert(s) with s not stored already returns Ok and leaves s
\* tracked under its id when s has no nameservers or the add call succeeds;
\* when the add call fails it returns the error and leaves what was tracked
\* under the id as it was, s not being stored.
C15_InsertUpsertsUnlessAddFails ==
    InsertedNew =>
        /\ last.ok = (last.arg.nameservers = <<>> \/ (Len(last.calls) = 1 /\ last.calls[1].ok))
        /\ IF last.ok
           THEN Tracked(services, last.id) = <<last.arg>>
           ELSE /\ Tracked(services, last.id) = last.pre
                /\ Len(last.calls) = 1
                /\ last.calls[1].op = "add"

\* insert of a changed service failed in add and the old entry is still there
C15_Witness ==
    /\ InsertedNew
    /\ last.pre # <<>>
    /\ ~last.ok
    /\ Len(last.calls) = 1
    /\ ~last.calls[1].ok
    /\ Tracked(services, last.id) = last.pre


\* s with the field that change is about set to the value of change
Merge(s, change) ==
    IF change.tag = "State" THEN [s EXCEPT !.state = change.value]
    ELSE IF change.tag = "Domains" THEN [s EXCEPT !.domains = change.value]
    ELSE [s EXCEPT !.nameservers = change.value]

\* update(id, change) has just been called for a tracked id and changes a field
UpdateChanged == UpdatedTracked /\ FieldOf(last.pre[1], last.arg) # last.arg.value

\* what update does for a merged entry that is ready or online, in state
\* configuration, or in a state update has no arm for
EffectByState(merged) ==
    IF merged.state \in {"ready", "online"}
    THEN /\ Len(last.calls) = 1
         /\ last.calls[1].op = "add"
         /\ last.calls[1].iface = interface_or_id(merged)
         /\ last.calls[1].content = Unlines(ExpectedLines(merged))
         /\ last.ok = last.calls[1].ok
         /\ Tracked(services, last.id) = <<merged>>
    ELSE IF merged.state = "configuration"
    THEN /\ last.calls = <<>>
         /\ last.ok
         /\ Tracked(services, last.id) = <<merged>>
    ELSE /\ last.calls = <<>>
         /\ ~last.ok
         /\ Tracked(services, last.id) = <<merged>>

\* C16 as stated: when update changes a field of a tracked entry, the state
\* of the merged entry decides: ready or online, one add call with the content
\* of the whole merged entry; disconnect, one del call and the entry is
\* removed; configuration, no call and Ok; any other state, no call and an
\* error.
C16_EffectByMergedState ==
    UpdateChanged =>
        LET merged == Merge(last.pre[1], last.arg)
        IN IF merged.state = "disconnect"
           THEN /\ Len(last.calls) = 1
                /\ last.calls[1].op = "del"
                /\ last.calls[1].iface = interface_or_id(merged)
                /\ last.id \notin DOMAIN services
           ELSE EffectByState(merged)

\* C16, amended: as above, except that in state disconnect the entry is
\* removed only when the one del call succeeds; when it fails the merged
\* entry stays tracked and update returns the error.
C16_EffectByMergedStateDelOk ==
    UpdateChanged =>
        LET merged == Merge(last.pre[1], last.arg)
        IN IF merged.state = "disconnect"
           THEN /\ Len(last.calls) = 1
                /\ last.calls[1].op = "del"
                /\ last.calls[1].iface = interface_or_id(merged)
                /\ last.ok = last.calls[1].ok
                /\ Tracked(services, last.id) = IF last.ok THEN <<>> ELSE <<merged>>
           ELSE EffectByState(merged)

\* new nameservers of an online service with domains were published with the
\* domains
C16_Witness ==
    /\ UpdateChanged
    /\ last.arg.tag = "Nameservers"
    /\ last.arg.value # <<>>
    /\ last.pre[1].state = "online"
    /\ last.pre[1].domains # <<>>
    /\ Len(last.calls) = 1
    /\ last.calls[1].ok
    /\ last.calls[1].content = Unlines(ExpectedLines(Merge(last.pre[1], last.arg)))
    /\ conf[last.calls[1].iface] = last.calls[1].content


\* the ways Services::get fails: GetServices fails, the answer does not list
\* the service, the entry listed has no State
FetchErrors == {"transport", "no_such_service", "malformed"}

\* C18: when services.get(id) fails in the handling of State(ready) or
\* State(online), the signal is dropped: the services tracked and the
\* configuration stay as they are, no engine call and no helper call is made,
\* and the daemon is back at the head of its loop.
C18_FailedFetchDropsEvent ==
    [][(pc = "wait" /\ ev'.kind = "promote" /\ ev'.fetched # "ok") =>
          /\ ev'.fetched \in FetchErrors
          /\ services' = services
          /\ conf' = conf
          /\ last' = last
          /\ failed' = failed
          /\ pc' = "check"]_vars

\* a tracked service was announced online, was no longer listed, and is
\* tracked as before
C18_Witness ==
    /\ ev.kind = "promote"
    /\ ev.fetched = "no_such_service"
    /\ ev.id \in DOMAIN services
    /\ last.op = "insert"
    /\ last.id = ev.id
    /\ services[ev.id] = last.arg
    /\ pc = "check"


\* C19: when update changes a field and fails, because the helper call failed
\* or because the merged state is one it has no arm for, the entry tracked is
\* the merged one all the same; the same update delivered again right after
\* is then a no-op: no helper call, Ok, the entry as it was.  So after a del
\* that failed the entry is tracked in state disconnect and a second
\* State(disconnect) makes no del call.
C19_MergedBeforeWriteNoRetry ==
    /\ (UpdateChanged /\ ~last.ok) =>
           Tracked(services, last.id) = <<Merge(last.pre[1], last.arg)>>
    /\ (last.op = "update" /\ last.again /\ ~last.before.ok) =>
           /\ last.pre # <<>>
           /\ FieldOf(last.pre[1], last.arg) = last.arg.value
           /\ last.calls = <<>>
           /\ last.ok
           /\ Tracked(services, last.id) = last.pre

\* State(disconnect) again after the del call of the first one had failed
C19_Witness ==
    /\ Disconnected
    /\ last.again
    /\ ~last.before.ok
    /\ Len(last.before.calls) = 1
    /\ last.before.calls[1].op = "del"
    /\ last.calls = <<>>
    /\ last.ok
    /\ last.id \in DOMAIN services
    /\ services[last.id].state = "disconnect"


\* State(v), v ready or online, has just been handled by a successful
\* services.get(id) and a successful insert
Promoted == ev.kind = "promote" /\ ev.fetched = "ok" /\ ev.ok

\* C20 as stated: after State(v), v ready or online, has been handled by a
\* successful fetch and insert, the service is tracked in state v, whatever
\* state GetServices reported for it.
C20_PromotedStateIsNotified ==
    Promoted => (ev.id \in DOMAIN services /\ services[ev.id].state = ev.change.value)

\* C20, amended: after State(v), v ready or online, has been handled by a
\* successful fetch and insert, the service tracked under the id is the one
\* GetServices reported, state included: its state is v only when GetServices
\* reported v.
C20_PromotedStateIsFetched ==
    Promoted =>
        /\ ev.id \in DOMAIN services
        /\ last.op = "insert"
        /\ last.id = ev.id
        /\ services[ev.id] = last.arg
        /\ services[ev.id].state = ev.state

\* a service announced online was listed as idle when fetched, and is tracked
\* as idle with its nameservers written
C20_Witness ==
    /\ Promoted
    /\ ev.change.value = "online"
    /\ ev.state = "idle"
    /\ services[ev.id].state = "idle"
    /\ Len(last.calls) = 1
    /\ last.calls[1].op = "add"
    /\ last.calls[1].ok


---------------------------------------------------------------------------
(* The dispatch of signals, step by step.  Spec takes the handling of one  *)
(* signal as one step; here it is taken apart into the blocking calls it   *)
(* makes, and signals keep arriving on the connection meanwhile.  What a   *)
(* signal carries does not matter here, only who it is for and whether it  *)
(* announces ready or online.  The connection hands the signals it has     *)
(* received to the closure in the order it received them, one per call of  *)
(* the closure; the helper reads its input until it exits, so a write to   *)
(* its stdin fails only once it has exited.                                *)

MaxSignals == 3

Signals == [seq : 1..MaxSignals, id : Ids, activation : BOOLEAN]

SerialInit ==
    /\ pc = "wait"
    /\ sigterm = FALSE
    /\ cleanup_on_term = FALSE
    /\ services = EmptyMap
    /\ conf = EmptyMap
    /\ todo = <<>>
    /\ n = 0
    /\ ev = [kind |-> "none"]
    /\ last = NoEntry
    /\ failed = FALSE
    /\ bus = <<>>
    /\ running = 0
    /\ applied = <<>>

Handled(result) == [kind |-> "handled", msg |-> ev.msg, result |-> result]

\* ConnMan emits a PropertyChanged signal; it reaches the connection whatever
\* run() is doing
SignalArrives ==
    /\ n < MaxSignals
    /\ \E s \in Signals : s.seq = n + 1 /\ bus' = Append(bus, s)
    /\ n' = n + 1
    /\ UNCHANGED <<pc, sigterm, cleanup_on_term, services, conf, todo, ev, last, failed,
                   running, applied>>

\* connection.process() calls the closure for the oldest signal received
DispatchSignal ==
    /\ pc = "wait"
    /\ bus # <<>>
    /\ ev' = [kind |-> "handling", msg |-> Head(bus)]
    /\ bus' = Tail(bus)
    /\ pc' = IF Head(bus).activation THEN "get" ELSE "engine"
    /\ UNCHANGED <<sigterm, cleanup_on_term, services, conf, todo, n, last, failed,
                   running, applied>>

\* services.get(id) returns: Ok, and insert is next, or Err, and the closure
\* returns
GetReturns ==
    /\ pc = "get"
    /\ \/ pc' = "engine" /\ ev' = ev
       \/ pc' = "wait" /\ ev' = Handled("fetch_error")
    /\ UNCHANGED <<sigterm, cleanup_on_term, services, conf, todo, n, last, failed,
                   serial>>

\* insert or update with an add that spawns the helper and returns without
\* child.wait()
CallEngine_no_wait ==
    /\ pc = "engine"
    /\ applied' = Append(applied, ev.msg)
    /\ \/ pc' = "wait" /\ ev' = Handled("no_helper") /\ running' = running
       \/ pc' = "wait" /\ ev' = Handled("spawned") /\ running' = running + 1
    /\ UNCHANGED <<sigterm, cleanup_on_term, services, conf, todo, n, last, failed, bus>>

\* insert or update: the signal is applied to services; then either no helper
\* call is made (or check_permissions or spawn fails) and the closure
\* returns, or the helper is spawned
CallEngine ==
    /\ pc = "engine"
    /\ applied' = Append(applied, ev.msg)
    /\ \/ pc' = "wait" /\ ev' = Handled("no_helper") /\ running' = running
       \/ pc' = "spawned" /\ ev' = ev /\ running' = running + 1
    /\ UNCHANGED <<sigterm, cleanup_on_term, services, conf, todo, n, last, failed, bus>>

\* the helper process exits
HelperExits ==
    /\ running > 0
    /\ running' = running - 1
    /\ UNCHANGED <<pc, sigterm, cleanup_on_term, services, conf, todo, n, ev, last, failed,
                   bus, applied>>

\* child.wait() in add, or status() in del, returns: the helper has exited
WaitReturns ==
    /\ pc = "spawned"
    /\ running = 0
    /\ pc' = "wait"
    /\ \E result \in Runs : ev' = Handled(result)
    /\ UNCHANGED <<sigterm, cleanup_on_term, services, conf, todo, n, last, failed,
                   serial>>

\* write_all to the helper's stdin fails in add, and add returns the error
\* without child.wait(): the helper has exited
WriteFails ==
    /\ pc = "spawned"
    /\ running = 0
    /\ pc' = "wait"
    /\ ev' = Handled("write_error")
    /\ UNCHANGED <<sigterm, cleanup_on_term, services, conf, todo, n, last, failed,
                   serial>>

SerialNext ==
    \/ SignalArrives \/ DispatchSignal \/ GetReturns \/ CallEngine
    \/ HelperExits \/ WaitReturns \/ WriteFails

SerialSpec == SerialInit /\ [][SerialNext]_vars

====
